---- MODULE Spec2Model ----
(***************************************************************************)
(* Passwordless authentication backend (guardian): the one-time code       *)
(* lifecycle (issue, redeem, reap), the sliding-window rate limit, the     *)
(* two request handlers that sequence them over a relational store, and    *)
(* the access tokens (JWT) with the routes that require one.               *)
(*                                                                         *)
(* Time is counted in whole minutes.  A handler takes a step of its own    *)
(* for every awaited statement: the user lookup, the count and the         *)
(* oldest-row query of the rate limit, the whitelist query, the lookup,    *)
(* the insert and the refresh of a user, the commit of a token row and     *)
(* the refresh after it; the reaper takes one for its DELETE and one for   *)
(* its commit.  A token row is created at the start of the transaction     *)
(* that inserts it, which is the first statement of the session since its  *)
(* last commit.  The steps of different requests interleave freely in      *)
(* Spec, SpecBurst and SpecRace and run to completion one request at a     *)
(* time in SpecSeq.  SpecEnv adds store failures, delivery failures and    *)
(* an email in two letter cases; SpecSession adds the bearer routes and    *)
(* changes to the users table.                                             *)
(***************************************************************************)
EXTENDS Integers, Sequences, FiniteSets, TLC

(* ---------------- bounds of the model ---------------- *)
\* token rows inserted during one behaviour of the sequential specification
MaxTokens == 3
\* token rows inserted during one behaviour of the interleaved specification
MaxTokensConc == 2
\* token rows inserted during one behaviour of the burst specification
MaxTokensBurst == 3
\* the clock advances while it is below this many minutes
MaxTime == 11
\* the clock advances in steps of this many minutes
TickMinutes == 5
\* token rows inserted during one behaviour of the specification with faults
MaxTokensEnv == 2
\* token rows inserted during one behaviour of the session specification
MaxTokensSession == 2
\* token rows inserted during one behaviour of the specification of
\* interleaved requests for an unregistered email
MaxTokensRace == 2
\* access tokens a client keeps
MaxWallet == 2
\* the session specification stops advancing the clock by days at this many
MaxDays == 2

(* ---------------- settings (app/core/config.py) ---------------- *)
\* Settings.rate_limit_requests: Field(ge=1, le=10)
rate_limit_requests == 2
\* Settings.rate_limit_window_minutes: Field(ge=5, le=60)
rate_limit_window_minutes == 10
\* Settings.token_expiry_minutes: Field(ge=1, le=60)
token_expiry_minutes == 5
\* Settings.session_expiry_days: Field(ge=1, le=30)
session_expiry_days == 1

\* the request handlers: two requests can be in progress at the same time
Procs == {1, 2}

\* request emails: "a@x.io" is registered from the start, "b@x.io" is not
Emails == {"a@x.io", "b@x.io"}
\* 6-digit codes, as generate_6_digit_token formats them
Codes == {"000123", "456789"}
\* the inputs of the interleaved specification: one identity, one code
ConcEmails == {"a@x.io"}
ConcCodes == {"000123"}
\* the email of the interleaved requests that create a user
RaceEmails == {"b@x.io"}
\* the emails of the specification with faults: "A@x.io" is "a@x.io" in
\* another letter case (EmailStr keeps the case of the local part)
EnvEmails == {"a@x.io", "A@x.io", "b@x.io"}
\* what became of send_token_email: Mailgun took the message, Mailgun failed
\* (the error is logged and True returned), or the call raised
Delivered == {"sent"}
Deliveries == {"sent", "send_failed", "send_raised"}

\* the codes a validate-token request can carry that are not six decimal
\* digits: too short, too long, with a letter, and six superscript digits
Malformed == {"12345", "1234567", "12a456", "²²²²²²"}

\* the characters of a code
chars(v) ==
    CASE v = "000123"  -> <<"0", "0", "0", "1", "2", "3">>
      [] v = "456789"  -> <<"4", "5", "6", "7", "8", "9">>
      [] v = "12345"   -> <<"1", "2", "3", "4", "5">>
      [] v = "1234567" -> <<"1", "2", "3", "4", "5", "6", "7">>
      [] v = "12a456"  -> <<"1", "2", "a", "4", "5", "6">>
      [] v = "²²²²²²"  -> <<"²", "²", "²", "²", "²", "²">>

\* the characters 0 to 9 (unicode category Nd, ASCII)
DecimalDigits == {"0", "1", "2", "3", "4", "5", "6", "7", "8", "9"}

\* characters that are digits without being decimal digits (category No with
\* Numeric_Type=Digit): the superscripts
OtherDigits == {"²"}

\* faulty variant: a test for the characters 0 to 9 only
isdigit_Ascii(v) ==
    Len(chars(v)) > 0 /\ \A i \in 1..Len(chars(v)) : chars(v)[i] \in DecimalDigits

\* python's str.isdigit(): non-empty and every character has the property
\* Numeric_Type=Digit or Numeric_Type=Decimal
isdigit(v) ==
    Len(chars(v)) > 0
       /\ \A i \in 1..Len(chars(v)) : chars(v)[i] \in DecimalDigits \cup OtherDigits

\* TokenValidation.token: Field(min_length=6, max_length=6), then the
\* validator validate_token_format; "" when the value is accepted, else the
\* rule that rejects it
TokenValidation(v) ==
    IF Len(chars(v)) < 6 THEN "min_length"
    ELSE IF Len(chars(v)) > 6 THEN "max_length"
    ELSE IF ~isdigit(v) THEN "Token must contain only digits"
    ELSE IF Len(chars(v)) # 6 THEN "Token must be exactly 6 digits"
    ELSE ""

\* str.lower() on an email: "A@x.io" differs from "a@x.io" only in letter case
lower(e) == IF e = "A@x.io" THEN "a@x.io" ELSE e

\* used_at IS NULL, and Python's None
NULL == <<>>

VARIABLES
    clock,                  \* datetime.now(timezone.utc), in minutes
    enable_email_whitelist, \* Settings.enable_email_whitelist
    users,                  \* users table: sequence of rows, id = index
    tokens,                 \* tokens table: set of rows
    req,                    \* per handler: position, inputs, locals, response
    issued,                 \* history: every token row ever inserted
    redemptions,            \* history: per token id, sessions minted through it
    reaped,                 \* what the last cleanup_expired_tokens returned
    reaper,                 \* cleanup_expired_tokens: position, its now, rows deleted
    wallet                  \* the access tokens a client kept from responses

vars == <<clock, enable_email_whitelist, users, tokens, req, issued, redemptions,
          reaped, reaper, wallet>>

(* ---------------- access tokens (app/services/jwt_service.py) ---------------- *)
\* Settings.secret_key, and a key that is not it
secret_key == "secret_key"
OtherKey == "other_key"

\* str(user.id): the "sub" claim is the id as a string
str(id) == <<"str", id>>

\* calendar.timegm of a datetime: exp and iat are encoded in seconds
timegm(minutes) == minutes * 60

\* timedelta(days=d), in minutes
days(d) == d * 1440

\* the HS256 signature of a token's claims under a key
sign(claims, key) ==
    <<"HS256", key, claims.sub, claims.email, claims.exp, claims.iat>>

\* jwt.encode(payload, key, algorithm="HS256"): the claims and their signature
encode(sub, email, exp, iat, key) ==
    [sub |-> sub, email |-> email, exp |-> exp, iat |-> iat,
     sig |-> sign([sub |-> sub, email |-> email, exp |-> exp, iat |-> iat], key)]

\* no access token: the empty string
NoCredential == [sub |-> NULL, email |-> "", exp |-> 0, iat |-> 0, sig |-> <<>>]

\* a string that is not a JWT ("invalid.token.here")
Garbage == [sub |-> NULL, email |-> "", exp |-> 0, iat |-> 0, sig |-> <<"invalid">>]

\* create_access_token(user): the payload, signed with secret_key
create_access_token(user_id) ==
    encode(str(user_id), users[user_id].email,
           timegm(clock + days(session_expiry_days)), timegm(clock), secret_key)

\* an access token signed with another key for the first user, never expiring
Forged == encode(str(1), "a@x.io", timegm(days(MaxDays + 1)), 0, OtherKey)

\* a token signed with secret_key that has no "sub" claim, never expiring
Subjectless == encode(NULL, "a@x.io", timegm(days(MaxDays + 1)), 0, secret_key)

\* a signed token whose subject was changed to another id, signature kept
Tampered(token) ==
    [token EXCEPT !.sub = IF token.sub = str(1) THEN str(2) ELSE str(1)]

\* faulty variant: decoding that skips the expiry check
decode_access_token_NoExpiry(token) ==
    IF token.sig # sign(token, secret_key)
    THEN [ok |-> FALSE, payload |-> NoCredential]
    ELSE [ok |-> TRUE, payload |-> token]

\* decode_access_token: jwt.decode checks the signature, then rejects a token
\* whose exp is before the current second; ok = FALSE stands for JWTError
decode_access_token(token) ==
    IF token.sig # sign(token, secret_key) \/ token.exp < timegm(clock)
    THEN [ok |-> FALSE, payload |-> NoCredential]
    ELSE [ok |-> TRUE, payload |-> token]

\* a deleted row of the users table (an id is never given to another row)
DeletedUser == [email |-> "", is_active |-> FALSE]

\* select(User).where(User.id == user_id): the row whose id the string names
UserById(sub) ==
    IF sub # NULL /\ sub[2] \in 1..Len(users) /\ users[sub[2]] # DeletedUser
    THEN sub[2]
    ELSE 0

\* faulty variant: verification that also wants the subject's user active
verify_token_CheckingUser(token) ==
    LET d == decode_access_token(token) IN
    IF d.ok /\ d.payload.sub # NULL /\ UserById(d.payload.sub) # 0
            /\ users[UserById(d.payload.sub)].is_active
    THEN d.payload.sub
    ELSE NULL

\* faulty variant: verification that reads the claims without checking the
\* signature (jwt.get_unverified_claims)
verify_token_Unverified(token) ==
    IF token.exp < timegm(clock) THEN NULL ELSE token.sub

\* verify_token: the "sub" claim of a token that decodes, else None
verify_token(token) ==
    LET d == decode_access_token(token) IN
    IF d.ok /\ d.payload.sub # NULL THEN d.payload.sub ELSE NULL

(* ---------------- responses ---------------- *)
NoResponse == [status |-> 0, detail |-> "", retry_after |-> 0, sub |-> 0,
               access_token |-> NoCredential]

Response(st, d) == [status |-> st, detail |-> d, retry_after |-> 0, sub |-> 0,
                    access_token |-> NoCredential]

\* TokenRequestResponse of request_token
TokenRequestResponse == Response(200, "If the email exists, a 6-digit code has been sent")

\* HTTPException 429 of request_token
RateLimited(retry_after) ==
    [status |-> 429, detail |-> "Too many requests", retry_after |-> retry_after, sub |-> 0,
     access_token |-> NoCredential]

\* HTTPException 403 of request_token in whitelist mode
NotAuthorized == Response(403, "Email not authorized")

\* HTTPException 401 of validate_token when no user has the email
InvalidEmailOrToken == Response(401, "Invalid email or token")

\* the rules of TokenValidation that are a ValueError raised by the validator
\* validate_token_format (the others are constraints of the Field)
ValueErrors == {"Token must contain only digits", "Token must be exactly 6 digits"}

\* RequestValidationError: the body did not pass the request model; its
\* errors() name the rule and, for a ValueError of the validator, carry the
\* exception object itself in ctx
RequestValidationError(rule) == [msg |-> rule, ctx_error |-> rule \in ValueErrors]

\* HTTPException 401 of validate_token when validate_token_for_user returns None
InvalidOrExpiredToken == Response(401, "Invalid or expired token")

\* an exception that leaves validate_token (no handler catches it)
ServerError == Response(500, "Internal Server Error")

\* the application's handler of RequestValidationError: a JSONResponse 422
\* whose content holds exc.errors() as they are; an exception object among
\* them cannot be rendered as JSON, the handler raises and the request ends
\* in the 500 of an unhandled exception
validation_exception_handler(exc) ==
    IF exc.ctx_error THEN ServerError ELSE Response(422, exc.msg)

\* TokenValidationResponse of validate_token and refresh_token: a fresh access
\* token for the user, and the user's id
TokenValidationResponse(uid) ==
    [status |-> 200, detail |-> "bearer", retry_after |-> 0, sub |-> uid,
     access_token |-> create_access_token(uid)]

\* HTTPException 401 of get_current_user
Unauthorized(detail) == Response(401, detail)

\* UserResponse of get_current_user_info
UserResponse(uid) ==
    [status |-> 200, detail |-> "user", retry_after |-> 0, sub |-> uid,
     access_token |-> NoCredential]

\* LogoutResponse of logout
LogoutResponse == Response(200, "Successfully logged out")

\* faulty variant: the dependency without its is_active check
get_current_user_IgnoringActive(token) ==
    LET user_id == verify_token(token) IN
    IF user_id = NULL
    THEN [user |-> 0, error |-> Unauthorized("Invalid authentication credentials")]
    ELSE IF UserById(user_id) = 0
         THEN [user |-> 0, error |-> Unauthorized("User not found")]
         ELSE [user |-> UserById(user_id), error |-> NoResponse]

\* get_current_user: verify the token, load the user by the subject, check
\* is_active; the user's id, or the HTTPException raised
get_current_user(token) ==
    LET user_id == verify_token(token) IN
    IF user_id = NULL
    THEN [user |-> 0, error |-> Unauthorized("Invalid authentication credentials")]
    ELSE IF UserById(user_id) = 0
         THEN [user |-> 0, error |-> Unauthorized("User not found")]
         ELSE IF ~users[UserById(user_id)].is_active
              THEN [user |-> 0, error |-> Unauthorized("User account is inactive")]
              ELSE [user |-> UserById(user_id), error |-> NoResponse]

\* HTTPException 403 of HTTPBearer() for a request that carries no token
NotAuthenticated == Response(403, "Not authenticated")

\* security = HTTPBearer(): the Authorization header carries a token (no
\* header, and "Bearer " with nothing after it, do not)
security(token) == token # NoCredential

\* Depends(get_current_user): HTTPBearer answers a request without a token
\* before get_current_user runs
current_user(token) ==
    IF ~security(token) THEN [user |-> 0, error |-> NotAuthenticated]
    ELSE get_current_user(token)

\* a handler: its position, its request and its locals
\* no transaction is open on the handler's session
NoTxn == -1

IdleReq == [pc |-> "idle", kind |-> "none", email |-> "", code |-> "",
            user |-> 0, found |-> 0, window_start |-> 0, txn_start |-> NoTxn,
            response |-> NoResponse, event |-> "none", cred |-> NoCredential]

(* ---------------- store queries ---------------- *)
Minimum(S) == CHOOSE x \in S : \A y \in S : x <= y

\* select(User).where(User.email == email) ... scalar_one_or_none(); 0 is None
UserByEmail(email) ==
    IF \E i \in 1..Len(users) : users[i].email = email
    THEN CHOOSE i \in 1..Len(users) : users[i].email = email
    ELSE 0

\* hashlib.sha256(token).hexdigest(): a digest, never the code, one per code
hash_token(token) == <<"sha256", token>>

\* faulty variant: the validation query without its used_at IS NULL filter
ValidRows_IgnoringUsed(user_id, token) ==
    {t \in tokens : /\ t.user_id = user_id
                    /\ t.token_hash = hash_token(token)
                    /\ t.expires_at > clock}

\* faulty variant: the validation query with expires_at >= now
ValidRows_ExpiryInclusive(user_id, token) ==
    {t \in tokens : /\ t.user_id = user_id
                    /\ t.token_hash = hash_token(token)
                    /\ t.used_at = NULL
                    /\ t.expires_at >= clock}

\* faulty variant: the validation query without its user_id filter
ValidRows_AnyUser(user_id, token) ==
    {t \in tokens : /\ t.token_hash = hash_token(token)
                    /\ t.used_at = NULL
                    /\ t.expires_at > clock}

\* the rows the validation query selects
ValidRows(user_id, token) ==
    {t \in tokens : /\ t.user_id = user_id
                    /\ t.token_hash = hash_token(token)
                    /\ t.used_at = NULL
                    /\ t.expires_at > clock}

\* Token.is_valid(): False for a used row, False for expires_at < now, else True
is_valid(t) ==
    IF t.used_at # NULL THEN FALSE
    ELSE IF t.expires_at < clock THEN FALSE
    ELSE TRUE

\* faulty variant: validation that loads the row by hash and raises on a stale one
validate_token_for_user_RaisingOnStale(user_id, token) ==
    LET mine == {t \in tokens : t.user_id = user_id /\ t.token_hash = hash_token(token)}
        rows == {t \in mine : t.used_at = NULL /\ t.expires_at > clock}
    IN  IF mine = {} THEN [kind |-> "none", id |-> 0]
        ELSE IF Cardinality(rows) = 1
             THEN [kind |-> "token", id |-> (CHOOSE t \in rows : TRUE).id]
             ELSE [kind |-> "raise", id |-> 0]

\* validate_token_for_user: scalar_one_or_none() gives the row, None for no
\* row, and raises MultipleResultsFound for more than one row
validate_token_for_user(user_id, token) ==
    LET rows == ValidRows(user_id, token) IN
    IF rows = {} THEN [kind |-> "none", id |-> 0]
    ELSE IF Cardinality(rows) = 1
         THEN [kind |-> "token", id |-> (CHOOSE t \in rows : TRUE).id]
         ELSE [kind |-> "raise", id |-> 0]

\* faulty variant: the count query without its user_id filter
WindowRows_AllUsers(user_id) ==
    {t \in tokens : t.created_at >= clock - rate_limit_window_minutes}

\* faulty variant: the count query with a used_at IS NULL filter
WindowRows_UnusedOnly(user_id) ==
    {t \in tokens : /\ t.user_id = user_id
                    /\ t.used_at = NULL
                    /\ t.created_at >= clock - rate_limit_window_minutes}

\* the rows check_rate_limit counts
WindowRows(user_id) ==
    {t \in tokens : /\ t.user_id = user_id
                    /\ t.created_at >= clock - rate_limit_window_minutes}

\* faulty variant: retry_after without its floor of one second
retry_after_seconds_NoFloor(user_id, window_start) ==
    LET rows == {t \in tokens : t.user_id = user_id /\ t.created_at >= window_start} IN
    IF rows # {}
    THEN (Minimum({t.created_at : t \in rows}) + rate_limit_window_minutes - clock) * 60
    ELSE rate_limit_window_minutes * 60

\* check_rate_limit after its count query found the limit reached: the
\* oldest-row query for the window that began at window_start, run on the
\* rows stored now, and the seconds until that row leaves the window, at
\* least 1; the whole window when the query finds no row any more
retry_after_seconds(user_id, window_start) ==
    LET rows == {t \in tokens : t.user_id = user_id /\ t.created_at >= window_start} IN
    IF rows # {}
    THEN LET oldest == Minimum({t.created_at : t \in rows})
             secs == (oldest + rate_limit_window_minutes - clock) * 60
         IN  IF secs > 1 THEN secs ELSE 1
    ELSE rate_limit_window_minutes * 60

\* faulty variant: the limit compared with > instead of >=
check_rate_limit_OffByOne(user_id) ==
    LET rows == WindowRows(user_id)
        request_count == Cardinality(rows)
    IN  IF request_count > rate_limit_requests
        THEN LET oldest == Minimum({t.created_at : t \in rows})
                 secs == (oldest + rate_limit_window_minutes - clock) * 60
             IN [allowed |-> FALSE, remaining |-> 0,
                 retry_after |-> IF secs > 1 THEN secs ELSE 1]
        ELSE [allowed |-> TRUE, remaining |-> rate_limit_requests - request_count,
              retry_after |-> 0]

\* faulty variant: remaining counted after the request about to be recorded
check_rate_limit_RemainingAfter(user_id) ==
    LET rows == WindowRows(user_id)
        request_count == Cardinality(rows)
    IN  IF request_count >= rate_limit_requests
        THEN LET oldest == Minimum({t.created_at : t \in rows})
                 secs == (oldest + rate_limit_window_minutes - clock) * 60
             IN [allowed |-> FALSE, remaining |-> 0,
                 retry_after |-> IF secs > 1 THEN secs ELSE 1]
        ELSE [allowed |-> TRUE, remaining |-> rate_limit_requests - request_count - 1,
              retry_after |-> 0]

\* check_rate_limit: (allowed, attempts_remaining, retry_after_seconds), with
\* no statement of another session between its count query and its
\* oldest-row query (request_token runs the two queries in two steps)
check_rate_limit(user_id) ==
    LET request_count == Cardinality(WindowRows(user_id))
    IN  IF request_count >= rate_limit_requests
        THEN [allowed |-> FALSE, remaining |-> 0,
              retry_after |->
                 retry_after_seconds(user_id, clock - rate_limit_window_minutes)]
        ELSE [allowed |-> TRUE, remaining |-> rate_limit_requests - request_count,
              retry_after |-> 0]

\* faulty variant: every email is treated as one with no user row
check_rate_limit_by_email_AlwaysNew(email) ==
    [allowed |-> TRUE, remaining |-> rate_limit_requests - 1, retry_after |-> 0]

\* faulty variant: an email with no user row is given the whole quota
check_rate_limit_by_email_WholeQuota(email) ==
    IF UserByEmail(email) = 0
    THEN [allowed |-> TRUE, remaining |-> rate_limit_requests, retry_after |-> 0]
    ELSE check_rate_limit(UserByEmail(email))

\* check_rate_limit_by_email: an email with no user row is allowed
check_rate_limit_by_email(email) ==
    IF UserByEmail(email) = 0
    THEN [allowed |-> TRUE, remaining |-> rate_limit_requests - 1, retry_after |-> 0]
    ELSE check_rate_limit(UserByEmail(email))

\* faulty variant: a whitelist check that lets every email through
whitelist_rejects_Never(email) == FALSE

\* request_token step 2, the whitelist query: it rejects an email, lowercased,
\* that no user row has
whitelist_rejects(email) == UserByEmail(lower(email)) = 0

\* the next token id (uuid4: never reused)
NextId == Cardinality(issued) + 1

\* faulty variant: a row that expires the moment it is created
NewToken_NoLifetime(user_id, token, now) ==
    [id |-> NextId, user_id |-> user_id, token_hash |-> hash_token(token),
     expires_at |-> clock, used_at |-> NULL, created_at |-> now]

\* create_token_for_user: the row it inserts.  expires_at is computed at the
\* insert; created_at is the server default now(), the start of the
\* transaction the insert runs in
NewToken(user_id, token, now) ==
    [id |-> NextId, user_id |-> user_id, token_hash |-> hash_token(token),
     expires_at |-> clock + token_expiry_minutes, used_at |-> NULL,
     created_at |-> now]

\* faulty variant: a delete statement that spares the used rows
ExpiredRows_UnusedOnly == {t \in tokens : t.expires_at < clock /\ t.used_at = NULL}

\* faulty variant: a delete statement that removes one expired row per run
ExpiredRows_OneAtATime ==
    IF \E t \in tokens : t.expires_at < clock
    THEN {CHOOSE t \in tokens : t.expires_at < clock}
    ELSE {}

\* cleanup_expired_tokens: the rows the delete statement removes
ExpiredRows == {t \in tokens : t.expires_at < clock}

(* ---------------- initial state ---------------- *)
\* the users registered before any request: User(email="a@x.io")
InitialUsers == <<[email |-> "a@x.io", is_active |-> TRUE]>>

Init ==
    /\ clock = 0
    /\ enable_email_whitelist \in BOOLEAN
    /\ users = InitialUsers
    /\ tokens = {}
    /\ req = [p \in Procs |-> IdleReq]
    /\ issued = {}
    /\ redemptions = <<>>
    /\ reaped = 0
    /\ reaper = [pc |-> "idle", now |-> 0, rows |-> {}]
    /\ wallet = {}

Free(p) == req[p].pc \in {"idle", "done"}

\* the handlers of request_token between the start of the rate limit check
\* and the insert of the token row
InFlightIssues ==
    Cardinality({q \in Procs : req[q].pc \in {"rt_count", "rt_user", "rt_get",
                                              "rt_insert", "rt_refresh", "rt_issue"}})

\* handler p answers: it keeps its inputs, its response and what happened on
\* the way (event), and drops its locals
FinishEvent(p, kind, email, code, resp, event) ==
    req' = [req EXCEPT ![p] = [pc |-> "done", kind |-> kind, email |-> email,
                               code |-> code, user |-> 0, found |-> 0,
                               window_start |-> 0, txn_start |-> NoTxn,
                               response |-> resp, event |-> event,
                               cred |-> NoCredential]]

Finish(p, kind, email, code, resp) == FinishEvent(p, kind, email, code, resp, "none")

\* the handler of request_token after a count query that found the limit
\* reached: the oldest-row query for the same window is still to run
Denied(p) ==
    [req[p] EXCEPT !.pc = "rt_oldest",
                   !.window_start = clock - rate_limit_window_minutes]

\* where request_token goes on after the rate limit check allowed: to the
\* whitelist query when whitelist mode is on, else to get_or_create_user_by_email
AfterCheck == IF enable_email_whitelist THEN "rt_user" ELSE "rt_get"

\* get_db after the handler returned resp on a session whose flush failed and
\* was not rolled back: its session.commit() raises, and the client has resp
\* where the response is sent before the dependency's exit code runs, the 500
\* of the exception handler where it is sent after
get_db_failed(resp) == {resp, ServerError}

(* ---------------- request_token (POST /auth/request-token) ---------------- *)
\* faulty variant: the whitelist is consulted before the rate limit
RequestToken_CheckRateLimit_WhitelistFirst(p, email, budget) ==
    /\ Free(p)
    /\ \/ Cardinality(issued) + InFlightIssues < budget
       \/ ~check_rate_limit_by_email(email).allowed
    /\ IF enable_email_whitelist /\ whitelist_rejects(email)
       THEN Finish(p, "rt", email, "", NotAuthorized)
       ELSE req' = [req EXCEPT ![p] =
                      [IdleReq EXCEPT !.pc = IF UserByEmail(email) = 0 THEN AfterCheck
                                             ELSE "rt_count",
                                      !.kind = "rt", !.email = email,
                                      !.user = UserByEmail(email),
                                      !.txn_start = clock]]
    /\ UNCHANGED <<clock, enable_email_whitelist, users, tokens, issued, redemptions,
                   reaped, reaper, wallet>>

\* step 1, the user lookup of check_rate_limit_by_email: the first statement
\* of the request's session, which begins its transaction.  An email with no
\* user row is allowed without a count
RequestToken_CheckRateLimit(p, email, budget) ==
    /\ Free(p)
    /\ \/ Cardinality(issued) + InFlightIssues < budget
       \/ ~check_rate_limit_by_email(email).allowed
    /\ req' = [req EXCEPT ![p] =
                 [IdleReq EXCEPT !.pc = IF UserByEmail(email) = 0 THEN AfterCheck
                                        ELSE "rt_count",
                                 !.kind = "rt", !.email = email,
                                 !.user = UserByEmail(email),
                                 !.txn_start = clock]]
    /\ UNCHANGED <<clock, enable_email_whitelist, users, tokens, issued, redemptions,
                   reaped, reaper, wallet>>

\* faulty variant: a count query that reserves its slot by inserting a row
RequestToken_Count_Reserving(p, budget) ==
    /\ req[p].pc = "rt_count"
    /\ IF check_rate_limit(req[p].user).allowed
       THEN /\ Cardinality(issued) + InFlightIssues <= budget
            /\ req' = [req EXCEPT ![p].pc = AfterCheck, ![p].user = 0]
            /\ tokens' = tokens \cup
                  {[id |-> 0, user_id |-> req[p].user, token_hash |-> NULL,
                    expires_at |-> clock + token_expiry_minutes, used_at |-> NULL,
                    created_at |-> req[p].txn_start]}
       ELSE /\ req' = [req EXCEPT ![p] = Denied(p)]
            /\ tokens' = tokens
    /\ UNCHANGED <<clock, enable_email_whitelist, users, issued, redemptions,
                   reaped, reaper, wallet>>

\* step 1, the count query of check_rate_limit, its window taken from the
\* clock at this query.  Below the limit the check allows; at the limit the
\* window is kept for the oldest-row query
RequestToken_Count(p, budget) ==
    /\ req[p].pc = "rt_count"
    /\ IF check_rate_limit(req[p].user).allowed
       THEN /\ Cardinality(issued) + InFlightIssues <= budget
            /\ req' = [req EXCEPT ![p].pc = AfterCheck, ![p].user = 0]
       ELSE req' = [req EXCEPT ![p] = Denied(p)]
    /\ UNCHANGED <<clock, enable_email_whitelist, users, tokens, issued, redemptions,
                   reaped, reaper, wallet>>

\* step 1, the oldest-row query of check_rate_limit, on the rows stored by
\* now, and the 429 with the retry hint
RequestToken_RetryAfter(p) ==
    /\ req[p].pc = "rt_oldest"
    /\ Finish(p, "rt", req[p].email, "",
              RateLimited(retry_after_seconds(req[p].user, req[p].window_start)))
    /\ UNCHANGED <<clock, enable_email_whitelist, users, tokens, issued, redemptions,
                   reaped, reaper, wallet>>

\* faulty variant: an exception handler that lets a raising send fail the request
on_exception_FailOnSendRaised(event) ==
    IF event = "send_raised" THEN ServerError ELSE TokenRequestResponse

\* the answer of request_token after its try block ended with the given
\* event: the normal return, and the `except Exception` clause for anything
\* raised that is not an HTTPException, give the same success body
on_exception(event) == TokenRequestResponse

\* steps 2 and 3, a statement at a time: the whitelist query (rt_user); the
\* lookup of get_or_create_user_by_email (rt_get); for an email the lookup did
\* not find, the insert of a user row and its commit (rt_insert), which the
\* unique index on email fails when another request has inserted the email
\* since: the `except Exception` clause answers with the session not rolled
\* back; and the refresh of the new row (rt_refresh), which begins the
\* session's next transaction
RequestToken_ResolveUser(p) ==
    /\ req[p].pc \in {"rt_user", "rt_get", "rt_insert", "rt_refresh"}
    /\ LET email == req[p].email IN
       CASE req[p].pc = "rt_user" ->
              /\ users' = users
              /\ IF whitelist_rejects(email)
                 THEN Finish(p, "rt", email, "", NotAuthorized)
                 ELSE req' = [req EXCEPT ![p].pc = "rt_get"]
         [] req[p].pc = "rt_get" ->
              /\ users' = users
              /\ IF UserByEmail(email) = 0
                 THEN req' = [req EXCEPT ![p].pc = "rt_insert"]
                 ELSE req' = [req EXCEPT ![p].pc = "rt_issue",
                                         ![p].user = UserByEmail(email)]
         [] req[p].pc = "rt_insert" ->
              IF UserByEmail(email) # 0
              THEN /\ users' = users
                   /\ \E resp \in get_db_failed(on_exception("integrity_error")) :
                         FinishEvent(p, "rt", email, "", resp, "integrity_error")
              ELSE /\ users' = Append(users, [email |-> email, is_active |-> TRUE])
                   /\ req' = [req EXCEPT ![p].pc = "rt_refresh",
                                         ![p].user = Len(users) + 1,
                                         ![p].txn_start = NoTxn]
         [] req[p].pc = "rt_refresh" ->
              /\ users' = users
              /\ req' = [req EXCEPT ![p].pc = "rt_issue", ![p].txn_start = clock]
    /\ UNCHANGED <<clock, enable_email_whitelist, tokens, issued, redemptions,
                   reaped, reaper, wallet>>

\* faulty variant: a code the user already holds a row for renews that row
\* (used_at cleared, a new expiry) where the code inserts a new one
RequestToken_Issue_Renewing(p, token) ==
    /\ req[p].pc = "rt_issue"
    /\ LET row == NewToken(req[p].user, token, req[p].txn_start)
           old == {t \in tokens : t.user_id = row.user_id /\ t.token_hash = row.token_hash}
       IN
       /\ tokens' = IF old = {} THEN tokens \cup {row}
                    ELSE {IF t \in old
                          THEN [t EXCEPT !.used_at = NULL, !.expires_at = row.expires_at]
                          ELSE t : t \in tokens}
       /\ issued' = issued \cup {[id |-> row.id, user_id |-> row.user_id,
                                  created_at |-> row.created_at]}
       /\ req' = [req EXCEPT ![p].pc = "rt_send", ![p].txn_start = NoTxn,
                             ![p].found = IF old = {} THEN row.id
                                          ELSE (CHOOSE t \in old : TRUE).id]
    /\ redemptions' = Append(redemptions, 0)
    /\ UNCHANGED <<clock, enable_email_whitelist, users, reaped, reaper, wallet>>

\* steps 4 and 5: generate the code and insert its row, created_at left to
\* the server (the start of the session's transaction); the commit makes the
\* row visible to every other request and to the reaper
RequestToken_Issue(p, token) ==
    /\ req[p].pc = "rt_issue"
    /\ LET row == NewToken(req[p].user, token, req[p].txn_start) IN
       /\ tokens' = tokens \cup {row}
       /\ issued' = issued \cup {[id |-> row.id, user_id |-> row.user_id,
                                  created_at |-> row.created_at]}
       /\ req' = [req EXCEPT ![p].pc = "rt_send", ![p].found = row.id,
                             ![p].txn_start = NoTxn]
    /\ redemptions' = Append(redemptions, 0)
    /\ UNCHANGED <<clock, enable_email_whitelist, users, reaped, reaper, wallet>>

\* steps 5 to 7: db.refresh of the inserted row, which raises when the row
\* has been deleted since (the `except Exception` clause answers, no mail is
\* sent); else send_token_email with its outcome, and the answer
RequestToken_Send(p, delivery) ==
    /\ req[p].pc = "rt_send"
    /\ IF \E t \in tokens : t.id = req[p].found
       THEN FinishEvent(p, "rt", req[p].email, "", on_exception(delivery), delivery)
       ELSE FinishEvent(p, "rt", req[p].email, "", on_exception("refresh_failed"),
                        "refresh_failed")
    /\ UNCHANGED <<clock, enable_email_whitelist, users, tokens, issued, redemptions,
                   reaped, reaper, wallet>>

\* a store operation of request_token raises (connection lost, timeout): in
\* the rate limit check, in the user lookup or insert, in the token insert,
\* or in the refresh after it.  What was committed before stays, the rest
\* of the request is not done, and the `except Exception` clause answers
\* with the session not rolled back
RequestToken_StoreFailure(p, email) ==
    /\ \/ Free(p)
       \/ /\ req[p].pc \in {"rt_count", "rt_oldest", "rt_user", "rt_get", "rt_insert",
                            "rt_refresh", "rt_issue", "rt_send"}
          /\ email = req[p].email
    /\ \E resp \in get_db_failed(on_exception("store_failed")) :
          FinishEvent(p, "rt", email, "", resp, "store_failed")
    /\ UNCHANGED <<clock, enable_email_whitelist, users, tokens, issued, redemptions,
                   reaped, reaper, wallet>>

(* ---------------- validate_token (POST /auth/validate-token) ---------------- *)
\* the request model TokenValidation (a rejected body is answered by the
\* handler of RequestValidationError), then step 1: find the user by email
ValidateToken_Validate(p, email, token) ==
    /\ Free(p)
    /\ IF TokenValidation(token) # ""
       THEN Finish(p, "vt", email, token,
                   validation_exception_handler(RequestValidationError(TokenValidation(token))))
       ELSE IF UserByEmail(email) = 0
            THEN Finish(p, "vt", email, token, InvalidEmailOrToken)
            ELSE req' = [req EXCEPT ![p] = [IdleReq EXCEPT !.pc = "vt_query",
                                              !.kind = "vt", !.email = email,
                                              !.code = token,
                                              !.user = UserByEmail(email)]]
    /\ UNCHANGED <<clock, enable_email_whitelist, users, tokens, issued, redemptions,
                   reaped, reaper, wallet>>

\* step 2: validate_token_for_user, its query run at the clock of this step
ValidateToken_Query(p) ==
    /\ req[p].pc = "vt_query"
    /\ LET r == validate_token_for_user(req[p].user, req[p].code) IN
       IF r.kind = "none"
       THEN Finish(p, "vt", req[p].email, req[p].code, InvalidOrExpiredToken)
       ELSE IF r.kind = "raise"
            THEN Finish(p, "vt", req[p].email, req[p].code, ServerError)
            ELSE req' = [req EXCEPT ![p].pc = "vt_mark", ![p].found = r.id]
    /\ UNCHANGED <<clock, enable_email_whitelist, users, tokens, issued, redemptions,
                   reaped, reaper, wallet>>

\* faulty variant: every row of the user is marked used, not the found one only
ValidateToken_MarkUsed_AllOfUser(p) ==
    /\ req[p].pc = "vt_mark"
    /\ req[p].found \notin reaper.rows
    /\ \E t \in tokens : t.id = req[p].found
    /\ tokens' = {IF t.user_id = req[p].user THEN [t EXCEPT !.used_at = <<clock>>]
                                             ELSE t : t \in tokens}
    /\ req' = [req EXCEPT ![p].pc = "vt_refresh"]
    /\ UNCHANGED <<clock, enable_email_whitelist, users, issued, redemptions,
                   reaped, reaper, wallet>>

\* faulty variant: used_at is not set on the way to the access token
ValidateToken_MarkUsed_MintOnly(p) ==
    /\ req[p].pc = "vt_mark"
    /\ req' = [req EXCEPT ![p].pc = "vt_refresh"]
    /\ UNCHANGED <<clock, enable_email_whitelist, users, tokens, issued, redemptions,
                   reaped, reaper, wallet>>

\* step 3, first part: mark_token_as_used sets used_at and commits (UPDATE by
\* primary key).  The update of a row that the reaper has deleted and not yet
\* committed waits for the reaper's commit; a row deleted by then fails the
\* flush
ValidateToken_MarkUsed(p) ==
    /\ req[p].pc = "vt_mark"
    /\ req[p].found \notin reaper.rows
    /\ IF \E t \in tokens : t.id = req[p].found
       THEN /\ tokens' = {IF t.id = req[p].found THEN [t EXCEPT !.used_at = <<clock>>]
                                                 ELSE t : t \in tokens}
            /\ req' = [req EXCEPT ![p].pc = "vt_refresh"]
       ELSE /\ FinishEvent(p, "vt", req[p].email, req[p].code, ServerError, "stale_row")
            /\ tokens' = tokens
    /\ UNCHANGED <<clock, enable_email_whitelist, users, issued, redemptions,
                   reaped, reaper, wallet>>

\* step 3, second part, to step 5: db.refresh of the row, which raises when
\* the row is gone (a delete committed since; one not yet committed is not
\* seen): 500, no access token; else create_access_token and the answer
ValidateToken_Mint(p) ==
    /\ req[p].pc = "vt_refresh"
    /\ IF \E t \in tokens : t.id = req[p].found
       THEN /\ redemptions' = [redemptions EXCEPT ![req[p].found] = @ + 1]
            /\ Finish(p, "vt", req[p].email, req[p].code, TokenValidationResponse(req[p].user))
       ELSE /\ FinishEvent(p, "vt", req[p].email, req[p].code, ServerError, "refresh_failed")
            /\ redemptions' = redemptions
    /\ UNCHANGED <<clock, enable_email_whitelist, users, tokens, issued, reaped, reaper,
                   wallet>>

(* ---------------- the routes behind Depends(get_current_user) ---------------- *)
\* handler p answers a request that carried the access token cred
FinishBearer(p, kind, cred, resp) ==
    req' = [req EXCEPT ![p] = [IdleReq EXCEPT !.pc = "done", !.kind = kind,
                                              !.cred = cred, !.response = resp]]

\* GET /auth/me
GetCurrentUserInfo(p, cred) ==
    /\ Free(p)
    /\ LET r == current_user(cred) IN
       FinishBearer(p, "me", cred, IF r.user = 0 THEN r.error ELSE UserResponse(r.user))
    /\ UNCHANGED <<clock, enable_email_whitelist, users, tokens, issued, redemptions,
                   reaped, reaper, wallet>>

\* POST /auth/refresh: a new access token; nothing is stored or withdrawn
RefreshToken(p, cred) ==
    /\ Free(p)
    /\ LET r == current_user(cred) IN
       FinishBearer(p, "refresh", cred,
                    IF r.user = 0 THEN r.error ELSE TokenValidationResponse(r.user))
    /\ UNCHANGED <<clock, enable_email_whitelist, users, tokens, issued, redemptions,
                   reaped, reaper, wallet>>

\* POST /auth/logout: a log line and a confirmation
Logout(p, cred) ==
    /\ Free(p)
    /\ LET r == current_user(cred) IN
       FinishBearer(p, "logout", cred, IF r.user = 0 THEN r.error ELSE LogoutResponse)
    /\ UNCHANGED <<clock, enable_email_whitelist, users, tokens, issued, redemptions,
                   reaped, reaper, wallet>>

\* the client keeps the access token of the response it just got
Client_Keep(p) ==
    /\ req[p].pc = "done"
    /\ req[p].response.access_token # NoCredential
    /\ req[p].response.access_token \notin wallet
    /\ Cardinality(wallet) < MaxWallet
    /\ wallet' = wallet \cup {req[p].response.access_token}
    /\ UNCHANGED <<clock, enable_email_whitelist, users, tokens, req, issued,
                   redemptions, reaped, reaper>>

(* ---------------- changes to the users table ---------------- *)
\* user.is_active is set or cleared
SetActive(u, b) ==
    /\ u \in 1..Len(users) /\ users[u] # DeletedUser
    /\ users[u].is_active # b
    /\ users' = [users EXCEPT ![u].is_active = b]
    /\ UNCHANGED <<clock, enable_email_whitelist, tokens, req, issued, redemptions,
                   reaped, reaper, wallet>>

\* db.delete(user): the user's token rows go with it (cascade)
DeleteUser(u) ==
    /\ u \in 1..Len(users) /\ users[u] # DeletedUser
    /\ users' = [users EXCEPT ![u] = DeletedUser]
    /\ tokens' = {t \in tokens : t.user_id # u}
    /\ UNCHANGED <<clock, enable_email_whitelist, req, issued, redemptions,
                   reaped, reaper, wallet>>

(* ---------------- the reaper and the clock ---------------- *)
ReaperIdle == [pc |-> "idle", now |-> 0, rows |-> {}]

\* cleanup_expired_tokens, its DELETE statement, with `now` read just before
\* it: the rows go in the reaper's transaction; every other session reads
\* them until the commit
Reap ==
    /\ reaper = ReaperIdle
    /\ reaper' = [pc |-> "deleted", now |-> clock, rows |-> {t.id : t \in ExpiredRows}]
    /\ UNCHANGED <<clock, enable_email_whitelist, users, tokens, req, issued,
                   redemptions, reaped, wallet>>

\* cleanup_expired_tokens, its commit, and the rowcount it returns
ReapCommit ==
    /\ reaper.pc = "deleted"
    /\ tokens' = {t \in tokens : t.id \notin reaper.rows}
    /\ reaped' = Cardinality(reaper.rows)
    /\ reaper' = ReaperIdle
    /\ UNCHANGED <<clock, enable_email_whitelist, users, req, issued, redemptions,
                   wallet>>

Tick ==
    /\ clock < MaxTime
    /\ clock' = clock + TickMinutes
    /\ UNCHANGED <<enable_email_whitelist, users, tokens, req, issued, redemptions,
                   reaped, reaper, wallet>>

\* a day passes
TickDay ==
    /\ clock < days(MaxDays)
    /\ clock' = clock + days(1)
    /\ UNCHANGED <<enable_email_whitelist, users, tokens, req, issued, redemptions,
                   reaped, reaper, wallet>>

\* one step of handler p, its inputs drawn from the emails E and the codes C,
\* and the delivery outcomes D, while fewer than budget token rows were inserted
Step(p, E, C, D, budget) ==
    \/ \E e \in E : RequestToken_CheckRateLimit(p, e, budget)
    \/ RequestToken_Count(p, budget)
    \/ RequestToken_RetryAfter(p)
    \/ RequestToken_ResolveUser(p)
    \/ \E c \in C : RequestToken_Issue(p, c)
    \/ \E d \in D : RequestToken_Send(p, d)
    \/ \E e \in E, c \in C : ValidateToken_Validate(p, e, c)
    \/ ValidateToken_Query(p)
    \/ ValidateToken_MarkUsed(p)
    \/ ValidateToken_Mint(p)

\* requests interleave with each other, with the reaper and with the clock
Next ==
    \/ \E p \in Procs : Step(p, ConcEmails, ConcCodes, Delivered, MaxTokensConc)
    \/ Reap
    \/ ReapCommit
    \/ Tick

\* the interleaved requests run with enable_email_whitelist at its default
InitConc == Init /\ enable_email_whitelist

Spec == InitConc /\ [][Next]_vars

\* a burst: requests interleave with each other and with the clock while the
\* reaper does not run, with room for more rows than the rate limit allows
NextBurst ==
    \/ \E p \in Procs : Step(p, ConcEmails, ConcCodes, Delivered, MaxTokensBurst)
    \/ Tick

SpecBurst == InitConc /\ [][NextBurst]_vars

\* requests for an email that no user has at the start interleave with each
\* other, with the reaper and with the clock
NextRace ==
    \/ \E p \in Procs : Step(p, RaceEmails, ConcCodes, Delivered, MaxTokensRace)
    \/ Reap
    \/ ReapCommit
    \/ Tick

SpecRace == Init /\ [][NextRace]_vars

\* one request at a time, run to completion before anything else happens,
\* and the reaper from its delete to its commit
Quiet == reaper = ReaperIdle /\ \A p \in Procs : Free(p)

StepSeq(E, C, D, budget) == reaper = ReaperIdle /\ Step(1, E, C, D, budget)

ReapSeq == Quiet /\ Reap

TickSeq == Quiet /\ Tick

NextSeq ==
    \/ StepSeq(Emails, Codes, Delivered, MaxTokens)
    \/ ReapSeq
    \/ ReapCommit
    \/ TickSeq

SpecSeq == Init /\ [][NextSeq]_vars

\* one request at a time, with store failures, every delivery outcome, and
\* an email in two letter cases
NextEnv ==
    \/ StepSeq(EnvEmails, ConcCodes, Deliveries, MaxTokensEnv)
    \/ \E e \in EnvEmails : reaper = ReaperIdle /\ RequestToken_StoreFailure(1, e)
    \/ ReapSeq
    \/ ReapCommit
    \/ TickSeq

SpecEnv == Init /\ [][NextEnv]_vars

\* one request at a time, the redeem requests also with malformed codes
NextForm ==
    \/ StepSeq(Emails, ConcCodes, Delivered, MaxTokensEnv)
    \/ \E e \in Emails, c \in Malformed : Quiet /\ ValidateToken_Validate(1, e, c)
    \/ ReapSeq
    \/ ReapCommit
    \/ TickSeq

SpecForm == Init /\ [][NextForm]_vars

\* what a request can carry as its access token: one the client kept, a
\* forged one, or none (no Authorization header, or an empty Bearer token)
Bearers == wallet \cup {Forged, NoCredential}

\* the tokens that are not valid ones by their form: a kept one with the
\* subject changed, one without a subject, a string that is no token, the
\* empty string
Invalids ==
    {Tampered(c) : c \in wallet} \cup {Subjectless, Garbage, NoCredential}

\* sessions: one request at a time, logins, the routes that take an access
\* token, changes to the users table, and the clock advancing by whole days,
\* past the expiry of codes and of access tokens (the reaper, which no
\* route that takes an access token reads the rows of, does not run)
NextSession ==
    \/ StepSeq(ConcEmails, ConcCodes, Delivered, MaxTokensSession)
    \/ Client_Keep(1)
    \/ \E c \in Bearers : Quiet /\ GetCurrentUserInfo(1, c)
    \/ \E c \in Bearers : Quiet /\ RefreshToken(1, c)
    \/ \E c \in Bearers : Quiet /\ Logout(1, c)
    \/ \E u \in 1..Len(users), b \in BOOLEAN : Quiet /\ SetActive(u, b)
    \/ \E u \in 1..Len(users) : Quiet /\ DeleteUser(u)
    \/ Quiet /\ TickDay

SpecSession == Init /\ [][NextSession]_vars

\* verification: logins, requests to /me that carry any token, valid or
\* not, and the clock advancing by whole days
NextVerify ==
    \/ StepSeq(ConcEmails, ConcCodes, Delivered, MaxTokensSession)
    \/ Client_Keep(1)
    \/ \E c \in Bearers \cup Invalids : Quiet /\ GetCurrentUserInfo(1, c)
    \/ Quiet /\ TickDay

SpecVerify == Init /\ [][NextVerify]_vars

(***************************************************************************)
(*                              Properties                                 *)
(***************************************************************************)
UserIds == 1..Len(users)

\* the rows of one user that store the digest of one code
RowsOf(u, c) == {t \in tokens : t.user_id = u /\ t.token_hash = hash_token(c)}

\* a finished handler of the given kind
Done(p, kind) == req[p].pc = "done" /\ req[p].kind = kind

\* C1: sequential one-time use.  With requests running one at a time, no
\* token row is redeemed twice; validate never returns a row whose used_at is
\* set; and when the user's only rows for a code are used ones, validate
\* answers not-found for that code.
OneTimeUse ==
    /\ \A i \in DOMAIN redemptions : redemptions[i] <= 1
    /\ \A t \in tokens : t.used_at # NULL =>
          \A c \in Codes :
             /\ validate_token_for_user(t.user_id, c).id # t.id
             /\ (\A r \in RowsOf(t.user_id, c) : r.used_at # NULL)
                   => validate_token_for_user(t.user_id, c).kind = "none"

\* C1 witness: a row redeemed once and not yet expired, and the repeated
\* redeem of its owner and code answered 401
OneTimeUseWitness ==
    \E t \in tokens :
       /\ t.used_at # NULL /\ t.expires_at > clock /\ redemptions[t.id] = 1
       /\ Done(1, "vt")
       /\ req[1].email = users[t.user_id].email
       /\ hash_token(req[1].code) = t.token_hash
       /\ RowsOf(t.user_id, req[1].code) = {t}
       /\ req[1].response = InvalidOrExpiredToken

\* C2: at-most-once redemption under concurrency: no token row has more than
\* one session minted through it.
AtMostOnceRedemption == \A i \in DOMAIN redemptions : redemptions[i] <= 1

\* C3: expiry enforcement.  validate returns a row only if it is that user's,
\* unused, and expires_at > now; a row with expires_at <= now is never
\* returned; and a handler that got a row from validate holds such a row.
ExpiryEnforced ==
    /\ \A u \in UserIds, c \in Codes :
          LET r == validate_token_for_user(u, c) IN
          /\ r.kind = "token" =>
                \E t \in tokens : /\ t.id = r.id /\ t.user_id = u
                                  /\ t.used_at = NULL /\ t.expires_at > clock
          /\ \A t \in tokens : t.expires_at <= clock => r.id # t.id
    /\ \A p \in Procs : req[p].pc = "vt_mark" =>
          \E t \in tokens : /\ t.id = req[p].found
                            /\ t.used_at = NULL /\ t.expires_at > clock

\* C3 witness: a never-used row at the very minute it expires, and the redeem
\* of its owner and code answered 401
ExpiryEnforcedWitness ==
    \E t \in tokens :
       /\ t.used_at = NULL /\ t.expires_at = clock
       /\ Done(1, "vt")
       /\ req[1].email = users[t.user_id].email
       /\ RowsOf(t.user_id, req[1].code) = {t}
       /\ req[1].response = InvalidOrExpiredToken

\* C4: sliding-window decision.  check for a user is allowed iff fewer than
\* limit of that user's rows are at most one window old; a denial carries
\* retry_after > 0; a handler past the check had an unknown email or a user
\* below the limit; every 429 answer carries retry_after > 0.
SlidingWindowDecision ==
    /\ \A u \in UserIds :
          LET n == Cardinality({t \in tokens :
                       t.user_id = u /\ clock - t.created_at <= rate_limit_window_minutes})
              r == check_rate_limit(u)
          IN  /\ r.allowed <=> n < rate_limit_requests
              /\ ~r.allowed => r.retry_after > 0
    /\ \A p \in Procs :
          /\ req[p].pc \in {"rt_user", "rt_get"} =>
                \/ UserByEmail(req[p].email) = 0
                \/ Cardinality({t \in tokens :
                       /\ t.user_id = UserByEmail(req[p].email)
                       /\ clock - t.created_at <= rate_limit_window_minutes})
                     < rate_limit_requests
          /\ req[p].response.status = 429 => req[p].response.retry_after > 0

\* C4 witness: one user is denied (and was answered 429) after limit issues
\* while another user with a row in the same window is still allowed
SlidingWindowDecisionWitness ==
    \E u \in UserIds, v \in UserIds :
       /\ u # v
       /\ Cardinality(WindowRows(u)) = rate_limit_requests
       /\ ~check_rate_limit(u).allowed
       /\ WindowRows(v) # {}
       /\ check_rate_limit(v).allowed
       /\ Done(1, "rt") /\ req[1].email = users[u].email
       /\ req[1].response.status = 429 /\ req[1].response.retry_after > 0

\* C5: the throttle bounds issuance independently of expiry: the codes
\* issued to one user in the trailing window never exceed the limit.
IssuanceBoundedByLimit ==
    \A u \in UserIds :
       Cardinality({i \in issued :
          i.user_id = u /\ i.created_at >= clock - rate_limit_window_minutes})
         <= rate_limit_requests

\* C6: check-then-issue is not atomic.  The check lets a request pass only
\* while the user's window holds fewer than limit rows, but a second handler
\* can pass it before the first has inserted: the rows of one user inside a
\* window can exceed the limit, by at most one per further concurrent
\* handler (limit+1 with two handlers).
RaceBound ==
    [][/\ \A p \in Procs :
             (req[p].pc = "rt_count" /\ req'[p].pc \in {"rt_user", "rt_get"})
                => \A u \in UserIds :
                      users[u].email = req'[p].email
                         => Cardinality(WindowRows(u)) < rate_limit_requests
       /\ \A u \in UserIds :
             Cardinality(WindowRows(u))'
                <= rate_limit_requests + Cardinality(Procs) - 1]_vars

\* C6 witness: two handlers passed the check at count limit-1 and both
\* inserted: limit+1 rows of one user inside one window
RaceBoundWitness ==
    \E u \in UserIds :
       /\ Cardinality(WindowRows(u)) = rate_limit_requests + 1
       /\ \A p \in {1, 2} : Done(p, "rt") /\ req[p].response = TokenRequestResponse
       /\ \A p \in {1, 2} : req[p].email = users[u].email

\* C7: the failure modes of validate are one value.  Whenever the user has no
\* row for the code (wrong code) or only expired or used rows for it,
\* validate returns None and does not raise.
FailureModesUniform ==
    \A u \in UserIds, c \in Codes :
       (\A t \in RowsOf(u, c) : t.used_at # NULL \/ t.expires_at <= clock)
          => validate_token_for_user(u, c) = [kind |-> "none", id |-> 0]

\* C7 witness: the three failure modes side by side: a wrong code for a user
\* holding a valid row, an expired unused row, a used unexpired row
FailureModesUniformWitness ==
    /\ \E u \in UserIds, c \in Codes, d \in Codes :
          /\ RowsOf(u, c) = {} /\ ValidRows(u, d) # {}
          /\ validate_token_for_user(u, c).kind = "none"
    /\ \E u \in UserIds, c \in Codes :
          /\ RowsOf(u, c) # {}
          /\ \A t \in RowsOf(u, c) : t.used_at = NULL /\ t.expires_at <= clock
          /\ validate_token_for_user(u, c).kind = "none"
    /\ \E u \in UserIds, c \in Codes :
          /\ RowsOf(u, c) # {}
          /\ \A t \in RowsOf(u, c) : t.used_at # NULL /\ t.expires_at > clock
          /\ validate_token_for_user(u, c).kind = "none"

\* C8: when a user holds several unused, unexpired rows for one code,
\* validate returns one of them, the most recently created.
MostRecentOnTie ==
    \A u \in UserIds, c \in Codes :
       ValidRows(u, c) # {} =>
          LET r == validate_token_for_user(u, c) IN
          /\ r.kind = "token"
          /\ \E t \in ValidRows(u, c) :
                /\ t.id = r.id
                /\ \A o \in ValidRows(u, c) : o.created_at <= t.created_at

\* C9: enumeration resistance of request_token.  In every configuration
\* (whitelist mode on or off), a request_token that is not rate limited is
\* answered with the one uniform success, whether or not a user has the email.
UniformSuccessAnyConfig ==
    \A p \in Procs :
       (Done(p, "rt") /\ req[p].response.status # 429)
          => req[p].response = TokenRequestResponse

\* C10: uniform failure of validate_token: the answer for an unknown email
\* is the answer given for a wrong, expired or used code.
UniformInvalid ==
    \A p \in Procs :
       (Done(p, "vt") /\ UserByEmail(req[p].email) = 0)
          => req[p].response = InvalidOrExpiredToken

\* C11: fail closed.  A request_token during which a store operation failed
\* or timed out (in the rate limit check, the user resolution or the token
\* insert) does not report success: it is answered with a server-side failure.
FailClosed ==
    \A p \in Procs :
       (Done(p, "rt") /\ req[p].event = "store_failed")
          => /\ req[p].response # TokenRequestResponse
             /\ req[p].response.status >= 500

\* the row the latest request_token inserted, as the history recorded it
LatestIssued == {i \in issued : i.id = Cardinality(issued)}

\* C12: the delivery outcome never affects the request.  Whatever became of
\* send_token_email (sent, failed, raised), the request that inserted a row
\* is answered with the one success; the row stays in the store, unused, up
\* to its expiry; and until then the validation query selects it for its
\* user and code.
DeliveryNeverAffects ==
    \A p \in Procs :
       (Done(p, "rt") /\ req[p].event \in Deliveries) =>
          /\ req[p].response = TokenRequestResponse
          /\ LatestIssued # {}
          /\ \A i \in LatestIssued :
                /\ i.created_at + token_expiry_minutes >= clock
                      => \E t \in tokens : t.id = i.id /\ t.used_at = NULL
                /\ i.created_at + token_expiry_minutes > clock
                      => \E c \in Codes : \E t \in ValidRows(i.user_id, c) : t.id = i.id

\* C12 witness: send_token_email raised, the request was answered with the
\* success all the same, and the row it inserted is selected by the
\* validation query
DeliveryNeverAffectsWitness ==
    /\ Done(1, "rt") /\ req[1].event = "send_raised"
    /\ req[1].response = TokenRequestResponse
    /\ \E i \in LatestIssued : \E c \in Codes : \E t \in ValidRows(i.user_id, c) :
          t.id = i.id /\ users[t.user_id].email = req[1].email

\* C13: the reaper is safe at any interleaving point.  A redeem that found
\* its row, and whose mark_used, or the refresh after it, ran after the
\* reaper deleted that row, still ends in a normal outcome of redeem
\* (success 200 or invalid 401).
ReaperSafe ==
    \A p \in Procs :
       (Done(p, "vt") /\ req[p].event \in {"stale_row", "refresh_failed"})
          => req[p].response.status \in {200, 401}

\* the step that ends a run of the reaper: its commit
IsReapStep == reaper.pc = "deleted" /\ reaper'.pc = "idle"

\* C14: reap_expired deletes exactly the rows with expires_at < now, of every
\* user, used or unused, and returns their number; every row with
\* expires_at >= now is left as it was.
ReapDeletesExactlyExpired ==
    [][IsReapStep =>
          /\ tokens' = {t \in tokens : t.expires_at >= reaper.now}
          /\ reaped' = Cardinality({t \in tokens : t.expires_at < reaper.now})
          /\ reaped' = Cardinality(tokens) - Cardinality(tokens')]_vars

\* C14 witness: one run deleted a redeemed row of one user and a never
\* redeemed row of another user, and kept a row at the minute it expires
ReapDeletesExactlyExpiredWitness ==
    /\ reaped = 2
    /\ \E i \in issued, j \in issued :
          /\ i.user_id # j.user_id
          /\ redemptions[i.id] = 1 /\ redemptions[j.id] = 0
          /\ \A t \in tokens : t.id # i.id /\ t.id # j.id
    /\ \E t \in tokens : t.expires_at = clock

\* C15: reap_expired is idempotent.  A run leaves no row with
\* expires_at < now behind, and a run that finds no such row deletes nothing,
\* leaves the store as it was and returns 0.
ReapIdempotent ==
    [][IsReapStep =>
          /\ {t \in tokens' : t.expires_at < reaper.now} = {}
          /\ {t \in tokens : t.expires_at < reaper.now} = {}
                => tokens' = tokens /\ reaped' = 0]_vars

\* C15 witness: a row that expired during the latest tick was deleted by one
\* run, and the next run, at the same clock, returned 0 with rows still stored
ReapIdempotentWitness ==
    /\ reaped = 0
    /\ tokens # {}
    /\ \E i \in issued :
          /\ \A t \in tokens : t.id # i.id
          /\ clock - TickMinutes <= i.created_at + token_expiry_minutes
          /\ i.created_at + token_expiry_minutes < clock

\* the emails registered before any request
InitialEmails == {InitialUsers[k].email : k \in DOMAIN InitialUsers}

\* C16: whitelist mode.  With enable_email_whitelist on, a request_token for
\* an email that no user has is answered 403 and no token row is ever
\* inserted for it: every row ever inserted belongs to a user whose email was
\* registered before any request, and no user row is added.
WhitelistClosed ==
    enable_email_whitelist =>
       /\ \A p \in Procs :
             (Done(p, "rt") /\ UserByEmail(lower(req[p].email)) = 0)
                => req[p].response = NotAuthorized
       /\ \A i \in issued : lower(users[i.user_id].email) \in InitialEmails
       /\ \A u \in UserIds : lower(users[u].email) \in InitialEmails

\* C16 witness: whitelist mode on, the registered email was issued a code,
\* and the request for the unregistered "b@x.io" was answered 403 and left
\* neither a user nor a token row
WhitelistClosedWitness ==
    /\ enable_email_whitelist
    /\ \E i \in issued : users[i.user_id].email = "a@x.io"
    /\ Done(1, "rt") /\ req[1].email = "b@x.io"
    /\ req[1].response = NotAuthorized
    /\ UserByEmail("b@x.io") = 0
    /\ tokens # {}

\* C17: email normalisation.  The store never holds two user rows whose
\* emails are equal after lowercasing.
EmailNormalised ==
    \A i \in UserIds, j \in UserIds :
       lower(users[i].email) = lower(users[j].email) => i = j

\* the access token is verified, its subject names a stored user, and that
\* user is active
Accepted(c) ==
    /\ verify_token(c) # NULL
    /\ \E u \in UserIds : /\ verify_token(c) = str(u)
                          /\ users[u] # DeletedUser
                          /\ users[u].is_active

\* C18: get_current_user accepts an access token iff verify_token verifies
\* it, a user with the subject's id is stored, and that user is active when
\* the request is made: each request to /me, /refresh or /logout is answered
\* 200 in exactly that case; otherwise get_current_user answers 401, and a
\* request that carries no token is answered 403 before it.
BearerAccepted ==
    [][\A p \in Procs :
          (req'[p] # req[p] /\ req'[p].kind \in {"me", "refresh", "logout"})
             => /\ req'[p].response.status = 200 <=> Accepted(req'[p].cred)
                /\ req'[p].response.status # 200
                      => req'[p].response.status =
                            IF req'[p].cred = NoCredential THEN 403 ELSE 401]_vars

\* C18 witness: an access token the client kept still verifies, its user was
\* deactivated, and the request that carried it was answered 401
BearerAcceptedWitness ==
    /\ Done(1, "me")
    /\ req[1].cred \in wallet
    /\ verify_token(req[1].cred) # NULL
    /\ UserById(req[1].cred.sub) # 0
    /\ ~users[UserById(req[1].cred.sub)].is_active
    /\ req[1].response = Unauthorized("User account is inactive")

\* C19: no revocation.  Whether an access token the client holds verifies
\* is a function of the token and the clock alone: it verifies, to its own
\* subject, until the second of its exp claim, whatever logout, refresh,
\* deactivation, deletion and the token store did since it was minted.
NoRevocation ==
    \A c \in wallet :
       verify_token(c) = IF timegm(clock) <= c.exp THEN c.sub ELSE NULL

\* C19 witness: the client logged out with a token, had refreshed it into a
\* newer one before, the user was then deactivated and the code of the login
\* marked used, and the older token still verifies
NoRevocationWitness ==
    \E c \in wallet, d \in wallet :
       /\ d.iat > c.iat /\ d.sub = c.sub
       /\ Done(1, "logout") /\ req[1].cred = c /\ req[1].response = LogoutResponse
       /\ UserById(c.sub) # 0 /\ ~users[UserById(c.sub)].is_active
       /\ \E t \in tokens : t.used_at # NULL
       /\ verify_token(c) = c.sub /\ c.sub # NULL

\* C20: session round trip.  A token minted for a user verifies to that
\* user's id at once and at every clock value before its expiry, and is
\* invalid at every clock value after its expiry.
SessionRoundTrip ==
    /\ \A u \in UserIds :
          users[u] # DeletedUser => verify_token(create_access_token(u)) = str(u)
    /\ \A p \in Procs :
          LET r == req[p].response IN
          r.access_token # NoCredential =>
             /\ timegm(clock) < r.access_token.exp => verify_token(r.access_token) = str(r.sub)
             /\ timegm(clock) > r.access_token.exp => verify_token(r.access_token) = NULL
    /\ \A c \in wallet :
          /\ timegm(clock) < c.exp => verify_token(c) = c.sub /\ \E u \in UserIds : c.sub = str(u)
          /\ timegm(clock) > c.exp => verify_token(c) = NULL

\* C20 witness: a token minted by an earlier login is past its expiry and
\* invalid, while the token of the login just answered, for the same user,
\* is before its expiry and verifies to the user's id
SessionRoundTripWitness ==
    /\ Done(1, "vt") /\ req[1].response.status = 200
    /\ timegm(clock) < req[1].response.access_token.exp
    /\ verify_token(req[1].response.access_token) = str(req[1].response.sub)
    /\ \E c \in wallet :
          /\ c.sub = str(req[1].response.sub)
          /\ timegm(clock) > c.exp
          /\ verify_token(c) = NULL

\* C21: session verification fails uniformly.  verify_token returns the one
\* value None for a token whose claims were changed under its signature, for
\* a token signed with another key, for a string that is no token, for the
\* empty string, for a token without a subject and for an expired token; and
\* a request that carries any of them as its Bearer token gets the one 401
\* answer (without a token the request does not come to verify_token).
VerifyFailsUniformly ==
    /\ \A c \in Invalids \cup {Forged} : verify_token(c) = NULL
    /\ \A c \in wallet : c.exp < timegm(clock) => verify_token(c) = NULL
    /\ \A p \in Procs :
          (Done(p, "me") /\ req[p].cred \in Invalids \cup {Forged})
             => req[p].response =
                   IF req[p].cred = NoCredential
                   THEN NotAuthenticated
                   ELSE Unauthorized("Invalid authentication credentials")

\* C21 witness: the client holds an expired token and a live one; the live
\* one with its subject changed was sent to /me and answered 401, and the
\* expired one, the subjectless one and the garbage all verify to None
VerifyFailsUniformlyWitness ==
    \E c \in wallet, d \in wallet :
       /\ c.exp < timegm(clock) /\ verify_token(c) = NULL
       /\ d.exp > timegm(clock) /\ verify_token(d) = d.sub /\ d.sub # NULL
       /\ Done(1, "me") /\ req[1].cred = Tampered(d)
       /\ req[1].response = Unauthorized("Invalid authentication credentials")
       /\ verify_token(Subjectless) = NULL /\ verify_token(Garbage) = NULL

\* the rows of a user created at most one window ago
InWindow(u) ==
    {t \in tokens : t.user_id = u /\ t.created_at >= clock - rate_limit_window_minutes}

\* the rows the oldest-row query of the denied handler p selects
OldestQueryRows(p) ==
    {t \in tokens : t.user_id = req[p].user /\ t.created_at >= req[p].window_start}

\* a step in which the denied handler p answers 429
IsDenialStep(p) ==
    /\ req[p].pc = "rt_oldest"
    /\ req'[p].pc = "done"
    /\ req'[p].response.status = 429

\* C22 as claimed: when check denies, remaining is 0 and retry_after is, in
\* seconds, oldest.created_at + window - now for the oldest of the user's
\* rows inside the window, floored at 1, so between 1 and the window; when
\* check allows, retry_after is 0.
RetryAfterFromOldest ==
    [][/\ \A u \in UserIds :
             check_rate_limit(u).allowed => check_rate_limit(u).retry_after = 0
       /\ \A p \in Procs :
             IsDenialStep(p) =>
                LET r == req'[p].response.retry_after IN
                /\ \E o \in OldestQueryRows(p) :
                      /\ \A t \in OldestQueryRows(p) : o.created_at <= t.created_at
                      /\ LET secs == (o.created_at + rate_limit_window_minutes - clock) * 60
                         IN  r = IF secs < 1 THEN 1 ELSE secs
                /\ 1 <= r /\ r <= rate_limit_window_minutes * 60]_vars

\* C22 as amended: when check denies, remaining is 0 and retry_after is, in
\* seconds, oldest.created_at + window - now for the oldest of the user's
\* rows that the oldest-row query finds inside the window, floored at 1;
\* when that query finds no row (the rows counted before were deleted in
\* the meantime) retry_after is the whole window; so retry_after is between
\* 1 and the window; when check allows, retry_after is 0.
RetryAfterExact ==
    [][/\ \A u \in UserIds :
             LET r == check_rate_limit(u) IN
             IF r.allowed
             THEN r.retry_after = 0
             ELSE /\ r.remaining = 0
                  /\ \E o \in InWindow(u) :
                        /\ \A t \in InWindow(u) : o.created_at <= t.created_at
                        /\ LET secs == (o.created_at + rate_limit_window_minutes - clock) * 60
                           IN  r.retry_after = IF secs < 1 THEN 1 ELSE secs
       /\ \A p \in Procs :
             IsDenialStep(p) =>
                LET r == req'[p].response.retry_after IN
                /\ IF OldestQueryRows(p) # {}
                   THEN \E o \in OldestQueryRows(p) :
                      /\ \A t \in OldestQueryRows(p) : o.created_at <= t.created_at
                      /\ LET secs == (o.created_at + rate_limit_window_minutes - clock) * 60
                         IN  r = IF secs < 1 THEN 1 ELSE secs
                   ELSE r = rate_limit_window_minutes * 60
                /\ 1 <= r /\ r <= rate_limit_window_minutes * 60]_vars

\* C22 witness: two requests were denied while the user's two rows were
\* exactly one window old; the first was answered 429 with retry_after 1;
\* the reaper deleted the rows before the oldest-row query of the second,
\* which was answered 429 with the whole window
RetryAfterExactWitness ==
    /\ Done(1, "rt") /\ req[1].response = RateLimited(1)
    /\ Done(2, "rt") /\ req[2].response = RateLimited(rate_limit_window_minutes * 60)
    /\ req[1].email = req[2].email
    /\ InWindow(UserByEmail(req[1].email)) = {}
    /\ \A i \in issued : i.created_at + rate_limit_window_minutes = clock

\* C23 as claimed: when check allows a user whose window holds count rows,
\* remaining is limit - count - 1.
RemainingAfterThisRequest ==
    \A u \in UserIds :
       check_rate_limit(u).allowed
          => check_rate_limit(u).remaining
                = rate_limit_requests - Cardinality(InWindow(u)) - 1

\* C23 as amended: when check allows a user whose window holds count < limit
\* rows, remaining is limit - count, the slots left before the request about
\* to be recorded.
RemainingBeforeThisRequest ==
    \A u \in UserIds :
       check_rate_limit(u).allowed
          => /\ Cardinality(InWindow(u)) < rate_limit_requests
             /\ check_rate_limit(u).remaining
                   = rate_limit_requests - Cardinality(InWindow(u))

\* C23 witness: a request passed the check for a user with one row in the
\* window, and check gives that user limit - 1 remaining
RemainingBeforeThisRequestWitness ==
    \E u \in UserIds :
       /\ Cardinality(InWindow(u)) = 1
       /\ req[1].pc = "rt_user" /\ req[1].email = users[u].email
       /\ check_rate_limit(u) =
             [allowed |-> TRUE, remaining |-> rate_limit_requests - 1, retry_after |-> 0]

\* C24: an email that no user row has is treated as having no prior
\* requests: check by email allows it with remaining = limit - 1 and
\* retry_after = 0, and no request for it is answered 429.
UnknownEmailAllowed ==
    /\ \A e \in Emails :
          UserByEmail(e) = 0 =>
             check_rate_limit_by_email(e) =
                [allowed |-> TRUE, remaining |-> rate_limit_requests - 1, retry_after |-> 0]
    /\ \A p \in Procs :
          (Done(p, "rt") /\ UserByEmail(req[p].email) = 0)
             => req[p].response.status # 429

\* C24 witness: a request for the unregistered "b@x.io" passed the check
\* while the registered user is at the limit and denied
UnknownEmailAllowedWitness ==
    /\ UserByEmail("b@x.io") = 0
    /\ req[1].pc = "rt_user" /\ req[1].email = "b@x.io"
    /\ check_rate_limit_by_email("b@x.io").allowed
    /\ ~check_rate_limit_by_email("a@x.io").allowed

\* a step of the rate limit check of request_token: a free handler takes a
\* request and looks its user up, the count query passes the request or
\* finds the limit reached, or a handler that found the limit reached runs
\* the oldest-row query and answers 429
IsCheckStep(p) ==
    /\ req'[p] # req[p]
    /\ req'[p].kind = "rt"
    /\ \/ req[p].pc \in {"idle", "done"} /\ req'[p].pc \in {"rt_count", "rt_user", "rt_get"}
       \/ req[p].pc = "rt_count" /\ req'[p].pc \in {"rt_user", "rt_get", "rt_oldest"}
       \/ req[p].pc = "rt_oldest" /\ req'[p].pc = "done"

\* C25: the rate limit check is read-only.  A check step leaves every user
\* and token row as it was, so a check repeated at the same clock gives the
\* same result for every email; and the count of a user's rows in the window
\* grows only in a step that inserts a token row.
CheckReadOnly ==
    [][/\ \A p \in Procs :
             IsCheckStep(p) =>
                /\ users' = users /\ tokens' = tokens
                /\ \A e \in Emails :
                      check_rate_limit_by_email(e)' = check_rate_limit_by_email(e)
       /\ \A u \in UserIds :
             Cardinality(InWindow(u))' > Cardinality(InWindow(u))
                => issued' # issued]_vars

\* C25 witness: the user was denied by a repeated check with exactly limit
\* rows stored and limit rows ever inserted
CheckReadOnlyWitness ==
    \E u \in UserIds :
       /\ Done(1, "rt") /\ req[1].email = users[u].email
       /\ req[1].response.status = 429
       /\ Cardinality(InWindow(u)) = rate_limit_requests
       /\ Cardinality(issued) = rate_limit_requests

\* C26: redemption is scoped by (user, hash).  A redeem for the email of
\* user V with code c succeeds only through a row that V owns and that holds
\* the digest of c, also when another user holds a row with the same digest;
\* and the validation of (V, c) never returns a row of another user.
RedeemScopedByUser ==
    [][/\ \A p \in Procs :
             (req[p].pc = "vt_refresh" /\ req'[p].pc = "done"
                 /\ req'[p].response.status = 200)
                => \E t \in tokens :
                      /\ t.id = req[p].found
                      /\ t.user_id = UserByEmail(req'[p].email)
                      /\ t.token_hash = hash_token(req'[p].code)
       /\ \A u \in UserIds : \A c \in Codes :
             validate_token_for_user(u, c).kind = "token"
                => \E t \in tokens : /\ t.id = validate_token_for_user(u, c).id
                                     /\ t.user_id = u]_vars

\* C26 witness: two users were issued the same code; the second redeemed
\* hers, and her repeated redeem is refused while the row of the first user
\* with the same digest is still valid
RedeemScopedByUserWitness ==
    /\ Len(users) = 2
    /\ ValidRows(1, "000123") # {}
    /\ \E t \in tokens : /\ t.user_id = 2 /\ t.used_at # NULL
                         /\ t.token_hash = hash_token("000123")
    /\ Done(1, "vt") /\ req[1].email = users[2].email /\ req[1].code = "000123"
    /\ req[1].response = InvalidOrExpiredToken

\* C27: issue(user, code) adds exactly one token row, owned by that user,
\* holding the SHA-256 digest of the code and not the code, with used_at
\* null and expires_at = now + token_expiry_minutes; it changes no other
\* row; and the new code is redeemable immediately: validation of (user,
\* code) returns the new row.
IssueAddsOneRedeemableRow ==
    [][issued' # issued =>
          \E p \in Procs : \E u \in UserIds : \E c \in Codes :
             LET row == NewToken(u, c, req[p].txn_start) IN
             /\ req[p].pc = "rt_issue" /\ req[p].user = u
             /\ row \notin tokens /\ tokens' = tokens \cup {row}
             /\ row.user_id = u
             /\ row.token_hash = hash_token(c) /\ row.token_hash[1] = "sha256"
             /\ row.used_at = NULL
             /\ row.expires_at = clock + token_expiry_minutes
             /\ users' = users
             /\ validate_token_for_user(u, c)' = [kind |-> "token", id |-> row.id]]_vars

\* C28: every stored token row satisfies expires_at > created_at.
ExpiresAfterCreated ==
    \A t \in tokens : t.expires_at > t.created_at

\* C28 witness: rows created at different times are stored, one of them
\* past its expiry, the other used and inserted later than its transaction
\* began
ExpiresAfterCreatedWitness ==
    \E t \in tokens, s \in tokens :
       /\ t.created_at < s.created_at
       /\ t.expires_at = t.created_at + token_expiry_minutes
       /\ t.expires_at < clock
       /\ s.expires_at > s.created_at + token_expiry_minutes
       /\ s.used_at # NULL

\* a code of exactly six decimal digits
SixDecimalDigits(v) ==
    Len(chars(v)) = 6 /\ \A i \in 1..6 : chars(v)[i] \in DecimalDigits

\* C29: a redeem request whose code is not exactly 6 decimal digits is
\* rejected as a validation error (422), distinct from the authentication
\* failure (401), before any store read or write: the step that answers it
\* changes no row, and its answer is not one computed from the user lookup.
MalformedCodeRejected ==
    [][\A p \in Procs :
          (req'[p] # req[p] /\ req'[p].kind = "vt" /\ ~SixDecimalDigits(req'[p].code))
             => /\ req'[p].pc = "done"
                /\ req'[p].response.status = 422
                /\ users' = users /\ tokens' = tokens]_vars

\* C30: order inside a successful redeem.  A redeem is answered with an
\* access token only by the step that follows the commit of mark_used, for a
\* row that a validation found; when the token is created that row is
\* stored with used_at set; the subject of the token is the id of the user
\* who owns the row; and a redeem whose validation found no row is answered
\* without an access token.
MarkedBeforeMinted ==
    [][\A p \in Procs :
          (req'[p] # req[p] /\ req'[p].kind = "vt" /\ req'[p].pc = "done")
             => IF req'[p].response.access_token # NoCredential
                THEN /\ req[p].pc = "vt_refresh"
                     /\ req'[p].response.status = 200
                     /\ \E t \in tokens :
                           /\ t.id = req[p].found
                           /\ t.used_at # NULL
                           /\ t \in tokens'
                           /\ t.user_id = UserByEmail(req'[p].email)
                           /\ req'[p].response.access_token.sub = str(t.user_id)
                ELSE req'[p].response.status # 200]_vars

\* C30 witness: the second user redeemed her code: her row is marked used at
\* this minute and the access token of the answer has her id as its subject,
\* while a redeem of a code she does not hold would find no row
MarkedBeforeMintedWitness ==
    /\ Len(users) = 2
    /\ Done(1, "vt") /\ req[1].email = users[2].email
    /\ req[1].response.status = 200
    /\ req[1].response.access_token.sub = str(2)
    /\ verify_token(req[1].response.access_token) = str(2)
    /\ \E t \in tokens : /\ t.user_id = 2 /\ t.used_at = <<clock>>
                         /\ t.token_hash = hash_token(req[1].code)
    /\ \E c \in Codes : validate_token_for_user(2, c).kind = "none"

\* a step of a successful redeem: the commit of mark_used, or the answer
\* with the access token
IsRedeemStep(p) ==
    \/ req[p].pc = "vt_mark" /\ req'[p].pc = "vt_refresh"
    \/ req[p].pc = "vt_refresh" /\ req'[p].pc = "done" /\ req'[p].response.status = 200

\* C31: redemption does not free a rate-limit slot.  The rows that the rate
\* limit counts for a user are all the user's rows inside the window, used
\* or not, so no step of a successful redeem changes the count or the
\* result of the check for any user.
RedeemKeepsSlot ==
    [][\A p \in Procs :
          IsRedeemStep(p)
             => \A u \in UserIds :
                   /\ WindowRows(u)' = InWindow(u)'
                   /\ Cardinality(WindowRows(u))' = Cardinality(WindowRows(u))
                   /\ check_rate_limit(u)' = check_rate_limit(u)]_vars

\* C31 witness: a request, a successful redeem of its code, and a second
\* request inside the window, answered with the success: the window count
\* of the user is 2, with one of the two rows used
RedeemKeepsSlotWitness ==
    /\ Done(1, "rt") /\ req[1].email = users[1].email
    /\ req[1].response = TokenRequestResponse
    /\ Cardinality(issued) = 2
    /\ Cardinality(WindowRows(1)) = 2
    /\ \E t \in WindowRows(1), n \in WindowRows(1) :
          /\ t.id = 1 /\ t.used_at # NULL
          /\ n.id = 2 /\ n.used_at = NULL

\* C32: request_token checks the rate limit before the whitelist.  The limit
\* is found reached by the count query, the second statement of the
\* handler, for a user whose check denies, and the 429 is answered from
\* there, without the whitelist being read; the whitelist is read, and the
\* 403 answered from it, only after the check allowed the email,
\* and the step that answers it inserts no row, so the check still allows
\* the email afterwards; with whitelist mode on, every request for an email
\* that no user row has is answered 403, never 429.
RateLimitBeforeWhitelist ==
    [][\A p \in Procs :
          /\ (req'[p] # req[p] /\ req'[p].pc = "rt_count")
                => req[p].pc \in {"idle", "done"}
          /\ (req'[p] # req[p] /\ req'[p].pc = "rt_oldest")
                => /\ req[p].pc = "rt_count"
                   /\ ~check_rate_limit_by_email(req'[p].email).allowed
          /\ (req'[p] # req[p] /\ req'[p].pc = "rt_user")
                => /\ req[p].pc \in {"idle", "done", "rt_count"}
                   /\ check_rate_limit_by_email(req'[p].email).allowed
          /\ (req'[p] # req[p] /\ req'[p].kind = "rt" /\ req'[p].pc = "done")
                => /\ req'[p].response.status = 429 => req[p].pc = "rt_oldest"
                   /\ req'[p].response.status = 403
                         => /\ req[p].pc = "rt_user"
                            /\ check_rate_limit_by_email(req'[p].email).allowed
                            /\ tokens' = tokens /\ issued' = issued /\ users' = users
                   /\ (enable_email_whitelist /\ UserByEmail(lower(req'[p].email)) = 0)
                         => /\ req'[p].response = NotAuthorized
                            /\ \A e \in Emails :
                                  check_rate_limit_by_email(e)' = check_rate_limit_by_email(e)]_vars

\* C32 witness: with whitelist mode on, the registered user is at the limit
\* and was answered 429 before; a request for the unregistered "b@x.io" is
\* answered 403, and the check still allows that email
RateLimitBeforeWhitelistWitness ==
    /\ enable_email_whitelist
    /\ ~check_rate_limit_by_email("a@x.io").allowed
    /\ Cardinality(WindowRows(1)) = rate_limit_requests
    /\ Done(1, "rt") /\ req[1].email = "b@x.io"
    /\ req[1].response = NotAuthorized
    /\ check_rate_limit_by_email("b@x.io").allowed

\* C33: for a user with count < limit rows in the window, check_rate_limit
\* by user id returns (allowed, limit - count, 0), so remaining = limit for
\* a user with no row in the window; check by email gives a registered email
\* the result of its user, and an unknown email limit - 1.
RemainingByIdAndByEmail ==
    /\ \A u \in UserIds :
          LET count == Cardinality(InWindow(u)) IN
          /\ count < rate_limit_requests
                => check_rate_limit(u) =
                      [allowed |-> TRUE, remaining |-> rate_limit_requests - count,
                       retry_after |-> 0]
          /\ count = 0 => check_rate_limit(u).remaining = rate_limit_requests
    /\ \A e \in Emails :
          IF \E u \in UserIds : users[u].email = e
          THEN \E u \in UserIds :
                  users[u].email = e /\ check_rate_limit_by_email(e) = check_rate_limit(u)
          ELSE check_rate_limit_by_email(e).remaining = rate_limit_requests - 1

\* C33 witness: the first user holds rows that are all older than the
\* window and has the whole limit remaining, the second user has one row in
\* the window and limit - 1 remaining
RemainingByIdAndByEmailWitness ==
    /\ Len(users) = 2
    /\ RowsOf(1, "000123") # {} /\ InWindow(1) = {}
    /\ check_rate_limit_by_email(users[1].email).remaining = rate_limit_requests
    /\ Cardinality(InWindow(2)) = 1
    /\ check_rate_limit_by_email(users[2].email) =
          [allowed |-> TRUE, remaining |-> rate_limit_requests - 1, retry_after |-> 0]

\* C34: Token.is_valid() agrees with the validity that redeem uses (used_at
\* is null and expires_at > now) for every stored row at every clock value,
\* the boundary expires_at = now included: is_valid holds of a row exactly
\* when the validation query selects it for its user and its code.
IsValidAgreesWithRedeem ==
    \A t \in tokens :
       /\ is_valid(t) <=> (t.used_at = NULL /\ t.expires_at > clock)
       /\ is_valid(t) <=> \E c \in Codes : t \in ValidRows(t.user_id, c)

\* C35: a redeem marks only the matched row.  The mark step of a redeem
\* changes the used_at of the found row and nothing else: every other row
\* is stored as it was, and for every user and every other code the
\* validation gives what it gave before, so the other valid codes of the
\* user stay redeemable; and the step that answers changes no row.
RedeemMarksOnlyMatched ==
    [][\A p \in Procs :
          /\ (req[p].pc = "vt_mark" /\ req'[p].pc = "vt_refresh")
                => /\ \A t \in tokens : t.id # req[p].found => t \in tokens'
                   /\ \A t \in tokens' :
                         IF t.id = req[p].found
                         THEN /\ t.used_at = <<clock>>
                              /\ \E o \in tokens : o = [t EXCEPT !.used_at = o.used_at]
                         ELSE t \in tokens
                   /\ \A u \in UserIds : \A c \in Codes :
                         (u # req[p].user \/ c # req[p].code)
                            => validate_token_for_user(u, c)' = validate_token_for_user(u, c)
          /\ (req[p].pc = "vt_refresh" /\ req'[p].pc = "done")
                => tokens' = tokens]_vars

\* C35 witness: the user held valid rows for two different codes and just
\* redeemed "000123": that row is used and refused from now on, the row of
\* "456789" is unused and the validation still returns it
RedeemMarksOnlyMatchedWitness ==
    /\ Done(1, "vt") /\ req[1].email = users[1].email /\ req[1].code = "000123"
    /\ req[1].response.status = 200
    /\ \E t \in RowsOf(1, "000123") : t.used_at = <<clock>>
    /\ validate_token_for_user(1, "000123").kind = "none"
    /\ \E t \in RowsOf(1, "456789") :
          validate_token_for_user(1, "456789") = [kind |-> "token", id |-> t.id]

\* C36: the retry hint is sufficient.  If the check denies a user at time t
\* with retry_after = r seconds, and no row is inserted or deleted until
\* t + r, then the check at time t + r allows the user.
RetryHintSufficient ==
    [][\A u \in UserIds :
          (/\ tokens' = tokens /\ users' = users
           /\ ~check_rate_limit(u).allowed
           /\ clock' * 60 = clock * 60 + check_rate_limit(u).retry_after)
             => check_rate_limit(u)'.allowed]_vars

\* C37: used_at is monotone.  In every step, a stored row whose used_at is
\* set is, if it is still stored afterwards, stored with used_at set; a row
\* gets its used_at set only by the mark step of a redeem whose validation
\* found that row; and the validation query never selects a used row.
UsedAtMonotone ==
    [][/\ \A t \in tokens : \A n \in tokens' :
             n.id = t.id =>
                /\ t.used_at # NULL => n.used_at # NULL
                /\ (t.used_at = NULL /\ n.used_at # NULL)
                      => \E p \in Procs : /\ req[p].pc = "vt_mark"
                                          /\ req[p].found = t.id
                                          /\ req'[p].pc = "vt_refresh"
       /\ \A n \in tokens' : n.id \notin {t.id : t \in tokens} => n.used_at = NULL
       /\ \A t \in tokens : \A c \in ConcCodes :
             t.used_at # NULL => t \notin ValidRows(t.user_id, c)]_vars

\* C37 witness: a row that was used at an earlier minute is still stored
\* and used, the user has been issued the same code again since, and the
\* validation returns the new row, not the used one
UsedAtMonotoneWitness ==
    \E t \in tokens, n \in tokens :
       /\ t.used_at # NULL /\ t.used_at # <<clock>> /\ t.expires_at >= clock
       /\ n.id > t.id /\ n.user_id = t.user_id /\ n.token_hash = t.token_hash
       /\ n.used_at = NULL
       /\ validate_token_for_user(n.user_id, "000123") = [kind |-> "token", id |-> n.id]

\* C38: every access token returned by a successful redeem is accepted by
\* get_current_user when it is presented in the state the redeem left: the
\* redeem never creates a token for a user that get_current_user rejects.
MintedIsAccepted ==
    [][\A p \in Procs :
          (req'[p] # req[p] /\ req'[p].kind = "vt" /\ req'[p].pc = "done"
              /\ req'[p].response.status = 200)
             => (get_current_user(req[p].response.access_token).user # 0)']_vars

\* C39: with whitelist mode on, request_token never creates a user row.
\* Every step of a request, also of one whose email differs from the email
\* of a user only in letter case, leaves the user rows as they were.
WhitelistNeverCreatesUser ==
    [][\A p \in Procs :
          (enable_email_whitelist /\ req'[p] # req[p] /\ req'[p].kind = "rt")
             => users' = users]_vars

====
